---- MODULE Spec2Model ----
(***************************************************************************)
(* ConvolutionalAutoEncoder (pydbm): forward_propagation, back_propagation *)
(* and extract_feature_points_arr, as a state machine.                     *)
(*                                                                         *)
(* A numpy array is a reference [addr, shape] into a heap of buffers; the  *)
(* content of a buffer is the symbolic term of the operations that built   *)
(* it (the layers, activation functions and optimizer are collaborators    *)
(* outside this class).  An operation of a collaborator may work in place  *)
(* (same buffer), return a new array, or raise.                            *)
(***************************************************************************)
EXTENDS Integers, Sequences, FiniteSets, TLC

\* ------------------------------------------------------------------ bounds
MaxLayers == 2

\* ------------------------------------------------------------ the universe
Addrs == 1..4

LayerKinds ==
    { [cin |-> 1, cout |-> 1, k |-> 1],
      [cin |-> 1, cout |-> 2, k |-> 2],
      [cin |-> 2, cout |-> 1, k |-> 2] }

\* the arrays a caller passes in: a name for the content, and a shape
Inputs == { [name |-> "x1", shape |-> <<2, 1, 4, 4>>],
            [name |-> "x2", shape |-> <<1, 1, 3, 4>>] }

DropoutRates == { 0, 5 }          \* tenths: 0.0 and 0.5

Masks == { 1, 2 }                 \* the random masks dropout may draw

Errors == { "ValueError", "FloatingPointError" }

NoneRef == [addr |-> 0, shape |-> <<>>]

NoVal == [shape |-> <<>>, val |-> <<>>]

BadShape == <<0>>

NoEvent == [op |-> "", obj |-> "", layer |-> 0, no_bias |-> FALSE, ndim |-> 0]

NoFault == [ev |-> NoEvent, err |-> "", phase |-> "", i |-> 0]

NoResult == [call |-> "", status |-> "", ret |-> NoneRef, err |-> ""]

VARIABLES
    layerable_cnn_list,   \* the stack, fixed at construction
    dropout_rate,         \* opt_params.dropout_rate, in tenths
    feature_points_arr,   \* self.__feature_points_arr: NoneRef or a reference
    heap,                 \* Addrs -> content of the buffer
    pc, i, sub,           \* position inside the running call
    img_arr, delta_arr,   \* the running tensor of forward / backward
    arg,                  \* the array the caller passed to the running call
    result,               \* how the last forward/backward call ended
    log,                  \* debug entries emitted by the running/last call
    trace,                \* collaborator operations invoked by the call
    fault,                \* what a collaborator raised in the call, if anything
    extracted,            \* what extract_feature_points_arr last returned
    mutated,              \* the caller wrote into the array forward returned
    enc,                  \* (ghost) value the encoder stack last produced
    encDone,              \* (ghost) the latest forward call finished encoding
    fwdExecuted,          \* (ghost) some forward call has been made
    prevCache             \* (ghost) value of the cache when the call began

vars == << layerable_cnn_list, dropout_rate, feature_points_arr, heap, pc, i,
           sub, img_arr, delta_arr, arg, result, log, trace, fault, extracted,
           mutated, enc, encDone, fwdExecuted, prevCache >>

\* ------------------------------------------------------------------ stacks
RECURSIVE Stacks(_)
Stacks(n) ==
    IF n = 0 THEN { <<>> }
    ELSE LET S == Stacks(n - 1) IN
         S \cup { Append(s, [id |-> Len(s) + 1, cin |-> lk.cin,
                              cout |-> lk.cout, k |-> lk.k]) :
                  s \in { t \in S : Len(t) = n - 1 }, lk \in LayerKinds }

\* self.layerable_cnn_list[::-1]
Reversed(l) == [j \in 1..Len(l) |-> l[Len(l) + 1 - j]]

\* (variant) the decoder loop walking the stack in its own order
DecoderListStackOrder(l) == l

\* the list the second loop of forward_propagation walks
DecoderList(l) == Reversed(l)

\* the list the second loop of back_propagation walks
DeltaList(l) == Reversed(l)

\* ------------------------------------------------ shapes (numpy, the layers)
Prod(s) == IF Len(s) = 4 THEN s[1] * s[2] * s[3] * s[4]
           ELSE IF Len(s) = 2 THEN s[1] * s[2] ELSE 0

\* layer.convolve: (b, cin, h, w) -> (b, cout, h-k+1, w-k+1)
ConvShape(layer, s) ==
    IF Len(s) = 4 /\ s[2] = layer.cin /\ s[3] >= layer.k /\ s[4] >= layer.k
    THEN << s[1], layer.cout, s[3] - layer.k + 1, s[4] - layer.k + 1 >>
    ELSE BadShape

\* layer.deconvolve: (b, cout, h, w) -> (b, cin, h+k-1, w+k-1)
DeconvShape(layer, s) ==
    IF Len(s) = 4 /\ s[2] = layer.cout
    THEN << s[1], layer.cin, s[3] + layer.k - 1, s[4] + layer.k - 1 >>
    ELSE BadShape

\* layer.back_propagate: the gradient of convolve, shaped like its input
BackPropShape(layer, s) == DeconvShape(layer, s)

\* an activation function, dropout and de_dropout keep the shape
SameShape(s) == s

\* arr.reshape((arr.shape[0], -1))
FlattenShape(s) == << s[1], Prod(s) \div s[1] >>

\* (variant) the reshape with height and width exchanged
ReshapeBackSwapped(s2, s4) ==
    IF Prod(s2) = Prod(<< s4[1], s4[2], s4[3], s4[4] >>)
    THEN << s4[1], s4[2], s4[4], s4[3] >>
    ELSE BadShape

\* hidden.reshape((arr.shape[0], arr.shape[1], arr.shape[2], arr.shape[3]))
ReshapeBack(s2, s4) ==
    IF Prod(s2) = Prod(<< s4[1], s4[2], s4[3], s4[4] >>)
    THEN << s4[1], s4[2], s4[3], s4[4] >>
    ELSE BadShape

\* ------------------------------------------------------------ heap, values
Tag(op, obj, layer, nb, mask) ==
    [op |-> op, obj |-> obj, layer |-> layer, no_bias |-> nb, mask |-> mask]

Ev(op, obj, layer, nb, ndim) ==
    [op |-> op, obj |-> obj, layer |-> layer, no_bias |-> nb, ndim |-> ndim]

InputVal(name) == << Tag("input", name, 0, FALSE, 0) >>

\* the value an array reference denotes now
Snap(ref) == IF ref = NoneRef THEN NoVal
             ELSE [shape |-> ref.shape, val |-> heap[ref.addr]]

LiveAddrs(refs) == { r.addr : r \in refs } \ { 0 }

Alloc(live) == CHOOSE a \in Addrs \ live : \A b \in Addrs \ live : a <= b

\* buffers nobody references are freed
Collect(h, live) == [a \in Addrs |-> IF a \in live THEN h[a] ELSE <<>>]

\* (variant) the cache keeping the array itself instead of a copy
CopyAlias(h, ref, live) == [ref |-> ref, heap |-> h]

\* arr.copy(): a new buffer with the same content
Copy(h, ref, live) ==
    LET a == Alloc(live) IN
    [ref |-> [addr |-> a, shape |-> ref.shape],
     heap |-> [h EXCEPT ![a] = h[ref.addr]]]

\* What a collaborator's operation can hand back for array ref: the result in
\* a new array, or (when the shape is kept) written into the same buffer.
Outcomes(ref, tag, outShape, live) ==
    IF outShape = BadShape THEN {}
    ELSE LET val == Append(heap[ref.addr], tag) IN
         { [ref  |-> [addr |-> a, shape |-> outShape],
            heap |-> [heap EXCEPT ![a] = val]] :
           a \in { Alloc(live) } \cup
                 (IF outShape = ref.shape THEN { ref.addr } ELSE {}) }

\* What it can raise: anything, and a shape it cannot take always raises.
Raises(outShape) == IF outShape = BadShape THEN { "ValueError" } ELSE Errors

\* --------------------------------------------------- the code's own choices
\* (variant) the dropout test admitting rate 0
DropoutEnabledAlways(rate) == rate >= 0

\* `if self.opt_params.dropout_rate > 0`
DropoutEnabled(rate) == rate > 0

\* "Error raised in Convolution layer " + str(i + 1)
EncLogIndex(j) == j + 1

\* "Error raised in Deconvolution layer " + str(i + 1)
DecLogIndex(j) == j + 1

\* "Backward raised error in Convolution layer " + str(i + 1)
BwdConvLogIndex(j) == j + 1

\* (variant) the reverse loop of backward logging its own position
DeltaLogIndexPlusOne(n, j) == j + 1

\* "Delta computation raised an error in CNN layer " + str(len(list) - i)
DeltaLogIndex(n, j) == n - j

\* (variant) the decoder step opening with the deactivation function
DecBackwardObjDeact == "deactivation_function"

\* the function object whose backward() opens a decoder step
DecBackwardObj == "activation_function"

\* (variant) the backward convolution keeping the bias
BwdNoBiasFlagOff == FALSE

\* convolve(delta_arr, no_bias_flag=True)
BwdNoBiasFlag == TRUE

\* (variant) the handler raising an error of its own
ReraiseOther(e) == "RuntimeError"

\* a bare `raise` in an except block re-raises the error in flight
Reraise(e) == e

\* self.__feature_points_arr, as extract_feature_points_arr reads it
ExtractValue(fp) == fp

NumLayers == Len(layerable_cnn_list)

\* the local the running call threads through its loops
Running == IF result.call = "forward" THEN img_arr ELSE delta_arr

ValOf(h, ref) == [shape |-> ref.shape, val |-> h[ref.addr]]

\* ---------------------------------------------------------------- Init
Init ==
    /\ layerable_cnn_list \in Stacks(MaxLayers)
    /\ dropout_rate \in DropoutRates
    /\ feature_points_arr = NoneRef
    /\ heap = [a \in Addrs |-> <<>>]
    /\ pc = "idle" /\ i = 0 /\ sub = 0
    /\ img_arr = NoneRef /\ delta_arr = NoneRef
    /\ arg = NoneRef
    /\ result = NoResult
    /\ log = <<>> /\ trace = <<>>
    /\ fault = NoFault
    /\ extracted = [called |-> FALSE, ret |-> NoneRef]
    /\ mutated = FALSE
    /\ enc = NoVal /\ encDone = FALSE /\ fwdExecuted = FALSE
    /\ prevCache = NoVal

\* ------------------------------------------------- pieces of every call
\* The caller builds an array and calls forward_propagation/back_propagation.
Begin(call, shape, name) ==
    LET a == Alloc(LiveAddrs({ feature_points_arr }))
        ref == [addr |-> a, shape |-> shape]
    IN  /\ pc = "idle"
        /\ arg' = ref
        /\ heap' = Collect([heap EXCEPT ![a] = InputVal(name)],
                           LiveAddrs({ ref, feature_points_arr }))
        /\ result' = [call |-> call, status |-> "running", ret |-> NoneRef,
                      err |-> ""]
        /\ log' = <<>> /\ trace' = <<>> /\ fault' = NoFault
        /\ extracted' = [called |-> FALSE, ret |-> NoneRef]
        /\ mutated' = FALSE
        /\ prevCache' = Snap(feature_points_arr)
        /\ i' = 0 /\ sub' = 0
        /\ UNCHANGED << layerable_cnn_list, dropout_rate, feature_points_arr >>

\* The call ends by an exception leaving it; its locals are gone.
Abort(e, ev, phase) ==
    /\ trace' = Append(trace, ev)
    /\ fault' = [ev |-> ev, err |-> e, phase |-> phase, i |-> i]
    /\ pc' = "idle" /\ i' = 0 /\ sub' = 0
    /\ img_arr' = NoneRef /\ delta_arr' = NoneRef
    /\ heap' = Collect(heap, LiveAddrs({ arg, feature_points_arr }))
    /\ UNCHANGED << layerable_cnn_list, dropout_rate, feature_points_arr, arg,
                    extracted, mutated, enc, encDone, fwdExecuted, prevCache >>

\* except: self.__logger.debug(text + str(num)); raise
Caught(e, ev, phase, text, num) ==
    /\ log' = Append(log, [text |-> text, num |-> num])
    /\ result' = [result EXCEPT !.status = "raised", !.err = Reraise(e)]
    /\ Abort(e, ev, phase)

\* an exception outside every try block
Uncaught(e, ev, phase) ==
    /\ log' = log
    /\ result' = [result EXCEPT !.status = "raised", !.err = e]
    /\ Abort(e, ev, phase)

\* The operation returned o; the local now names its result.
Continue(o, ev, nextPc, nextI, nextSub) ==
    /\ IF result.call = "forward"
       THEN img_arr' = o.ref /\ delta_arr' = delta_arr
       ELSE delta_arr' = o.ref /\ img_arr' = img_arr
    /\ heap' = Collect(o.heap, LiveAddrs({ arg, o.ref, feature_points_arr }))
    /\ trace' = Append(trace, ev)
    /\ pc' = nextPc /\ i' = nextI /\ sub' = nextSub
    /\ UNCHANGED << layerable_cnn_list, dropout_rate, feature_points_arr, arg,
                    result, log, fault, extracted, mutated, fwdExecuted,
                    prevCache >>

\* One statement `arr = layer.<op>(arr)` inside a try block.
LayerCall(layer, op, obj, nb, outShape, phase, text, num, nPc, nI, nSub) ==
    LET ref  == Running
        ev   == Ev(op, obj, layer.id, nb, Len(ref.shape))
        tag  == Tag(op, obj, layer.id, nb, 0)
        live == LiveAddrs({ arg, ref, feature_points_arr })
    IN  \/ \E e \in Raises(outShape) : Caught(e, ev, phase, text, num)
        \/ \E o \in Outcomes(ref, tag, outShape, live) :
               Continue(o, ev, nPc, nI, nSub)

\* The `if dropout_rate > 0:` block between the two loops: flatten,
\* dropout / de_dropout, reshape back with the shape of the local.
HiddenStep(op, phase, nextPc) ==
    LET ref  == Running
        s2   == FlattenShape(ref.shape)
        view == [addr |-> ref.addr, shape |-> s2]
        ev   == Ev(op, "opt_params", 0, FALSE, Len(s2))
        live == LiveAddrs({ arg, ref, feature_points_arr })
    IN  IF DropoutEnabled(dropout_rate)
        THEN \/ \E e \in Errors : Uncaught(e, ev, phase)
             \/ \E m \in Masks :
                \E o \in Outcomes(view, Tag(op, "opt_params", 0, FALSE, m),
                                  SameShape(s2), live) :
                    LET s4 == ReshapeBack(o.ref.shape, ref.shape) IN
                    IF s4 = BadShape
                    THEN Uncaught("ValueError", ev, phase)
                    ELSE Continue([o EXCEPT !.ref.shape = s4], ev,
                                  nextPc, 0, 0)
        ELSE /\ pc' = nextPc /\ i' = 0 /\ sub' = 0
             /\ UNCHANGED << layerable_cnn_list, dropout_rate,
                             feature_points_arr, heap, img_arr, delta_arr,
                             arg, result, log, trace, fault, extracted,
                             mutated, fwdExecuted, prevCache >>

\* `return arr`
Return(ref) ==
    /\ result' = [result EXCEPT !.status = "returned", !.ret = ref]
    /\ pc' = "idle" /\ i' = 0 /\ sub' = 0
    /\ img_arr' = NoneRef /\ delta_arr' = NoneRef
    /\ heap' = Collect(heap, LiveAddrs({ arg, ref, feature_points_arr }))
    /\ UNCHANGED << layerable_cnn_list, dropout_rate, feature_points_arr, arg,
                    log, trace, fault, extracted, mutated, enc, encDone,
                    fwdExecuted, prevCache >>

\* ------------------------------------------------- forward_propagation
ForwardCall ==
    \E x \in Inputs :
        /\ Begin("forward", x.shape, x.name)
        /\ img_arr' = arg' /\ delta_arr' = NoneRef
        /\ fwdExecuted' = TRUE
        /\ pc' = IF NumLayers = 0 THEN "store" ELSE "enc"
        /\ encDone' = (NumLayers = 0)
        /\ enc' = IF NumLayers = 0 THEN ValOf(heap', arg') ELSE enc

\* img_arr = self.layerable_cnn_list[i].convolve(img_arr)
EncConvolve ==
    /\ pc = "enc" /\ sub = 0
    /\ LET layer == layerable_cnn_list[i + 1] IN
       LayerCall(layer, "convolve", "layer", FALSE,
                 ConvShape(layer, img_arr.shape), "enc",
                 "Error raised in Convolution layer ", EncLogIndex(i),
                 "enc", i, 1)
    /\ UNCHANGED << enc, encDone >>

\* img_arr = ...[i].graph.activation_function.activate(img_arr)
EncActivate ==
    /\ pc = "enc" /\ sub = 1
    /\ LET layer == layerable_cnn_list[i + 1]
           last  == (i + 1 = NumLayers)
       IN  /\ LayerCall(layer, "activate", "activation_function", FALSE,
                        SameShape(img_arr.shape), "enc",
                        "Error raised in Convolution layer ", EncLogIndex(i),
                        IF last THEN "store" ELSE "enc", i + 1, 0)
           /\ encDone' = (pc' = "store")
           /\ enc' = IF pc' = "store" THEN ValOf(heap', img_arr') ELSE enc

\* self.__feature_points_arr = img_arr.copy()
StoreFeaturePoints ==
    /\ pc = "store"
    /\ LET c == Copy(heap, img_arr, LiveAddrs({ arg, img_arr })) IN
       /\ feature_points_arr' = c.ref
       /\ heap' = Collect(c.heap, LiveAddrs({ arg, img_arr, c.ref }))
    /\ pc' = "drop"
    /\ UNCHANGED << layerable_cnn_list, dropout_rate, i, sub, img_arr,
                    delta_arr, arg, result, log, trace, fault, extracted,
                    mutated, enc, encDone, fwdExecuted, prevCache >>

\* if self.opt_params.dropout_rate > 0: ... dropout ... reshape
Dropout ==
    /\ pc = "drop"
    /\ HiddenStep("dropout", "drop", IF NumLayers = 0 THEN "fret" ELSE "dec")
    /\ UNCHANGED << enc, encDone >>

\* img_arr = layerable_cnn_list[i].graph.activation_function.backward(img_arr)
DecBackward ==
    /\ pc = "dec" /\ sub = 0
    /\ LET layer == DecoderList(layerable_cnn_list)[i + 1] IN
       LayerCall(layer, "backward", DecBackwardObj, FALSE,
                 SameShape(img_arr.shape), "dec",
                 "Error raised in Deconvolution layer ", DecLogIndex(i),
                 "dec", i, 1)
    /\ UNCHANGED << enc, encDone >>

\* img_arr = layerable_cnn_list[i].deconvolve(img_arr)
DecDeconvolve ==
    /\ pc = "dec" /\ sub = 1
    /\ LET layer == DecoderList(layerable_cnn_list)[i + 1] IN
       LayerCall(layer, "deconvolve", "layer", FALSE,
                 DeconvShape(layer, img_arr.shape), "dec",
                 "Error raised in Deconvolution layer ", DecLogIndex(i),
                 "dec", i, 2)
    /\ UNCHANGED << enc, encDone >>

\* img_arr = layerable_cnn_list[i].graph.deactivation_function.activate(img_arr)
DecActivate ==
    /\ pc = "dec" /\ sub = 2
    /\ LET layer == DecoderList(layerable_cnn_list)[i + 1] IN
       LayerCall(layer, "activate", "deactivation_function", FALSE,
                 SameShape(img_arr.shape), "dec",
                 "Error raised in Deconvolution layer ", DecLogIndex(i),
                 IF i + 1 = NumLayers THEN "fret" ELSE "dec", i + 1, 0)
    /\ UNCHANGED << enc, encDone >>

\* return img_arr
ForwardReturn ==
    /\ pc = "fret"
    /\ Return(img_arr)

\* ---------------------------------------------------- back_propagation
BackwardCall ==
    \E x \in Inputs :
        /\ Begin("backward", x.shape, x.name)
        /\ delta_arr' = arg' /\ img_arr' = NoneRef
        /\ pc' = IF NumLayers = 0 THEN "bdrop" ELSE "bconv"
        /\ UNCHANGED << enc, encDone, fwdExecuted >>

\* delta_arr = self.layerable_cnn_list[i].convolve(delta_arr, no_bias_flag=True)
BwdConvolve ==
    /\ pc = "bconv"
    /\ LET layer == layerable_cnn_list[i + 1] IN
       LayerCall(layer, "convolve", "layer", BwdNoBiasFlag,
                 ConvShape(layer, delta_arr.shape), "bconv",
                 "Backward raised error in Convolution layer ",
                 BwdConvLogIndex(i),
                 IF i + 1 = NumLayers THEN "bdrop" ELSE "bconv", i + 1, 0)
    /\ UNCHANGED << enc, encDone >>

\* if self.opt_params.dropout_rate > 0: ... de_dropout ... reshape
DeDropout ==
    /\ pc = "bdrop"
    /\ HiddenStep("de_dropout", "bdrop",
                  IF NumLayers = 0 THEN "bret" ELSE "bdec")
    /\ UNCHANGED << enc, encDone >>

\* delta_arr = layerable_cnn_list[i].back_propagate(delta_arr)
BwdBackPropagate ==
    /\ pc = "bdec" /\ sub = 0
    /\ LET layer == DeltaList(layerable_cnn_list)[i + 1] IN
       LayerCall(layer, "back_propagate", "layer", FALSE,
                 BackPropShape(layer, delta_arr.shape), "bdec",
                 "Delta computation raised an error in CNN layer ",
                 DeltaLogIndex(NumLayers, i),
                 "bdec", i, 1)
    /\ UNCHANGED << enc, encDone >>

\* delta_arr = layerable_cnn_list[i].graph.deactivation_function.forward(delta_arr)
BwdDeactForward ==
    /\ pc = "bdec" /\ sub = 1
    /\ LET layer == DeltaList(layerable_cnn_list)[i + 1] IN
       LayerCall(layer, "forward", "deactivation_function", FALSE,
                 SameShape(delta_arr.shape), "bdec",
                 "Delta computation raised an error in CNN layer ",
                 DeltaLogIndex(NumLayers, i),
                 IF i + 1 = NumLayers THEN "bret" ELSE "bdec", i + 1, 0)
    /\ UNCHANGED << enc, encDone >>

\* return delta_arr
BackwardReturn ==
    /\ pc = "bret"
    /\ Return(delta_arr)

\* ------------------------------------------- extract_feature_points_arr
ExtractFeaturePoints ==
    /\ pc = "idle"
    /\ extracted' = [called |-> TRUE, ret |-> ExtractValue(feature_points_arr)]
    /\ UNCHANGED << layerable_cnn_list, dropout_rate, feature_points_arr, heap,
                    pc, i, sub, img_arr, delta_arr, arg, result, log, trace,
                    fault, mutated, enc, encDone, fwdExecuted, prevCache >>

\* ------------------------------------------------------------ the caller
\* The caller writes into the array forward_propagation returned to it.
CallerMutate ==
    /\ pc = "idle"
    /\ result.call = "forward" /\ result.status = "returned"
    /\ ~mutated
    /\ mutated' = TRUE
    /\ heap' = [heap EXCEPT ![result.ret.addr] =
                   Append(@, Tag("write", "caller", 0, FALSE, 0))]
    /\ UNCHANGED << layerable_cnn_list, dropout_rate, feature_points_arr, pc,
                    i, sub, img_arr, delta_arr, arg, result, log, trace, fault,
                    extracted, enc, encDone, fwdExecuted, prevCache >>

Next ==
    \/ ForwardCall
    \/ EncConvolve
    \/ EncActivate
    \/ StoreFeaturePoints
    \/ Dropout
    \/ DecBackward
    \/ DecDeconvolve
    \/ DecActivate
    \/ ForwardReturn
    \/ BackwardCall
    \/ BwdConvolve
    \/ DeDropout
    \/ BwdBackPropagate
    \/ BwdDeactForward
    \/ BackwardReturn
    \/ ExtractFeaturePoints
    \/ CallerMutate

Spec == Init /\ [][Next]_vars

\* ======================================================================
\* Properties
\* ======================================================================
IsHidden(e) == e.op \in { "dropout", "de_dropout" }

IsEncoderEv(e) ==
    \/ e.op = "convolve"
    \/ e.op = "activate" /\ e.obj = "activation_function"

IsDecoderEv(e) == ~IsHidden(e) /\ ~IsEncoderEv(e)

\* the layer operations of a call, without the dropout step
LayerTrace == SelectSeq(trace, LAMBDA e : ~IsHidden(e))

HiddenCount == Len(SelectSeq(trace, IsHidden))

CountOp(op, k) ==
    Cardinality({ j \in 1..Len(trace) :
                    trace[j].op = op /\ trace[j].layer = k })

ForwardReturned == result.call = "forward" /\ result.status = "returned"

ForwardRaised == result.call = "forward" /\ result.status = "raised"

BackwardReturned == result.call = "backward" /\ result.status = "returned"

TagOfEv(e) == Tag(e.op, e.obj, e.layer, e.no_bias, 0)

\* the part of the forward trace after the encoder loop and the dropout step
DecoderTrace ==
    IF Len(LayerTrace) > 2 * NumLayers
    THEN SubSeq(LayerTrace, 2 * NumLayers + 1, Len(LayerTrace))
    ELSE <<>>

\* C1: a forward call that returns has run convolve then activation for the
\* layers 1..n in stack order, then the decoder steps for the layers n..1;
\* each layer is convolved once and deconvolved once, and (in every state of
\* a forward call) no decoder operation precedes an encoder operation.
C1_ForwardOrder ==
    /\ result.call = "forward" =>
          \A a, b \in 1..Len(trace) :
              a < b => ~(IsDecoderEv(trace[a]) /\ IsEncoderEv(trace[b]))
    /\ ForwardReturned =>
          /\ Len(LayerTrace) = 5 * NumLayers
          /\ \A k \in 1..NumLayers :
                /\ LayerTrace[2 * k - 1] = Ev("convolve", "layer", k, FALSE, 4)
                /\ LayerTrace[2 * k] =
                       Ev("activate", "activation_function", k, FALSE, 4)
                /\ CountOp("convolve", k) = 1
                /\ CountOp("deconvolve", k) = 1
          /\ \A j \in 1..NumLayers : \A d \in 1..3 :
                /\ DecoderTrace[3 * (j - 1) + d].layer = NumLayers + 1 - j
                /\ (d = 2) = (DecoderTrace[3 * (j - 1) + d].op = "deconvolve")

C1_Witness ==
    /\ ForwardReturned /\ NumLayers = 2
    /\ layerable_cnn_list[1].k # layerable_cnn_list[2].k

\* what the code does in the j-th decoder step (j = 1 is the last layer)
DecoderStep(j) ==
    LET L == NumLayers + 1 - j IN
    << Ev("backward", "activation_function", L, FALSE, 4),
       Ev("deconvolve", "layer", L, FALSE, 4),
       Ev("activate", "deactivation_function", L, FALSE, 4) >>

\* what the decoder step is said to be: the deactivation function's backward
DecoderStepAsStated(j) ==
    LET L == NumLayers + 1 - j IN
    << Ev("backward", "deactivation_function", L, FALSE, 4),
       Ev("deconvolve", "layer", L, FALSE, 4),
       Ev("activate", "deactivation_function", L, FALSE, 4) >>

\* C2 (as stated): every decoder operation of forward is, in order, the
\* layer's deactivation function's backward, its deconvolve, its
\* deactivation function's activate; the activation function is not used.
C2_AsStated ==
    result.call = "forward" =>
        \A p \in 1..Len(DecoderTrace) :
            DecoderTrace[p] =
                DecoderStepAsStated(((p - 1) \div 3) + 1)[((p - 1) % 3) + 1]

\* C2 (amended): every decoder operation of forward is, in order, the
\* backward of the layer's (encoder-side) activation function, the layer's
\* deconvolve, the activate of the layer's deactivation function; the
\* deactivation function's backward is never invoked.
C2_DecoderStep ==
    result.call = "forward" =>
        /\ \A p \in 1..Len(DecoderTrace) :
              DecoderTrace[p] =
                  DecoderStep(((p - 1) \div 3) + 1)[((p - 1) % 3) + 1]
        /\ ForwardReturned => Len(DecoderTrace) = 3 * NumLayers

C2_Witness ==
    /\ ForwardReturned /\ NumLayers = 2
    /\ \E p \in 1..Len(trace) :
          trace[p].op = "backward" /\ trace[p].obj = "activation_function"

\* C3 (as stated): extract returns None if no forward call was made, and
\* otherwise the tensor the last encoder layer produced in the most recent
\* forward call.
C3_AsStated ==
    extracted.called =>
        IF ~fwdExecuted THEN extracted.ret = NoneRef
        ELSE encDone /\ Snap(extracted.ret) = enc

\* C3 (amended): the cache, and what extract returns, is None if no forward
\* call has finished its encoder loop, and otherwise holds the value the
\* last encoder layer produced in the most recent forward call that finished
\* its encoder loop; in-place work on the running tensor, the caller writing
\* into the returned array, backward and extract calls do not change it.
C3_CacheIsLatestEncoding ==
    pc # "store" =>
        /\ Snap(feature_points_arr) = enc
        /\ (feature_points_arr = NoneRef) = (enc = NoVal)
        /\ extracted.called => Snap(extracted.ret) = enc

C3_Witness ==
    /\ extracted.called /\ mutated /\ ForwardReturned
    /\ Snap(extracted.ret) = enc /\ enc # NoVal
    /\ Snap(result.ret) # enc

\* C4: when layer k's deconvolve raises in forward, the same error leaves
\* the call and the one debug entry carries k.
C4_DeconvLogIndex ==
    (result.call = "forward" /\ fault.ev.op = "deconvolve") =>
        /\ result.status = "raised" /\ result.err = fault.err
        /\ Len(log) = 1
        /\ log[1].num = fault.ev.layer

\* C5: when a per-layer operation raises in forward or backward there is
\* exactly one debug entry, the raising operation is the last one invoked,
\* nothing is returned and the call ends raising that very error.
C5_RaiseAborts ==
    /\ Len(log) <= 1
    /\ (fault # NoFault /\ ~IsHidden(fault.ev)) =>
          /\ Len(log) = 1
          /\ pc = "idle"
          /\ result.status = "raised"
          /\ result.err = fault.err
          /\ result.ret = NoneRef
          /\ trace[Len(trace)] = fault.ev
    /\ result.status = "returned" => fault = NoFault /\ log = <<>>

C5_Witness ==
    /\ fault # NoFault /\ fault.ev.op = "back_propagate"
    /\ fault.err = "FloatingPointError" /\ NumLayers = 2

\* C6: a backward call that returns has convolved the delta with the layers
\* 1..n in stack order, each time with no_bias_flag true, then run
\* back_propagate and the deactivation function's forward for the layers
\* n..1; each layer once; and it returns the delta after the last step.
C6_BackwardOrder ==
    BackwardReturned =>
        /\ Len(LayerTrace) = 3 * NumLayers
        /\ \A k \in 1..NumLayers :
              /\ LayerTrace[k] = Ev("convolve", "layer", k, TRUE, 4)
              /\ CountOp("convolve", k) = 1
              /\ CountOp("back_propagate", k) = 1
        /\ \A j \in 1..NumLayers :
              LET L == NumLayers + 1 - j IN
              /\ LayerTrace[NumLayers + 2 * j - 1] =
                     Ev("back_propagate", "layer", L, FALSE, 4)
              /\ LayerTrace[NumLayers + 2 * j] =
                     Ev("forward", "deactivation_function", L, FALSE, 4)
        /\ LET val == SelectSeq(heap[result.ret.addr],
                                LAMBDA t : t.op # "de_dropout")
           IN  /\ Len(val) = 1 + Len(LayerTrace)
               /\ val[1].op = "input"
               /\ \A p \in 1..Len(LayerTrace) :
                     val[p + 1] = TagOfEv(LayerTrace[p])

C6_Witness ==
    /\ BackwardReturned /\ NumLayers = 2 /\ dropout_rate > 0
    /\ layerable_cnn_list[1].k # layerable_cnn_list[2].k

\* the pure encoder: convolve then activation, layers 1..k
RECURSIVE EncTerm(_, _)
EncTerm(name, k) ==
    IF k = 0 THEN InputVal(name)
    ELSE EncTerm(name, k - 1) \o
         << Tag("convolve", "layer", k, FALSE, 0),
            Tag("activate", "activation_function", k, FALSE, 0) >>

\* the pure decoder applied to v: the first j decoder steps
RECURSIVE DecTerm(_, _)
DecTerm(v, j) ==
    IF j = 0 THEN v
    ELSE DecTerm(v, j - 1) \o
         [d \in 1..3 |-> TagOfEv(DecoderStep(j)[d])]

PureEncodeDecode(name) == DecTerm(EncTerm(name, NumLayers), NumLayers)

\* the shape after convolving with the layers 1..k
RECURSIVE EncShape(_, _)
EncShape(s, k) ==
    IF k = 0 THEN s
    ELSE LET t == EncShape(s, k - 1) IN
         IF t = BadShape THEN BadShape
         ELSE ConvShape(layerable_cnn_list[k], t)

\* C7: with dropout rate 0 neither call invokes dropout or de_dropout and
\* what forward returns is the pure encode-then-decode term of its input (so
\* equal for equal inputs); with a rate above 0 a call invokes dropout
\* (forward) / de_dropout (backward) at most once, exactly once when it gets
\* past the forward-order loop, right after that loop and before the
\* reverse-order loop, on the 2-D flattened tensor, and the running tensor
\* comes back with the 4-D shape it had before flattening.
C7_Dropout ==
    /\ dropout_rate = 0 =>
          /\ HiddenCount = 0
          /\ (ForwardReturned /\ ~mutated) =>
                LET val == heap[result.ret.addr] IN
                val = PureEncodeDecode(val[1].obj)
    /\ dropout_rate > 0 =>
          /\ HiddenCount <= 1
          /\ \A p \in 1..Len(trace) :
                IsHidden(trace[p]) =>
                    /\ trace[p].ndim = 2
                    /\ trace[p].op = IF result.call = "forward"
                                     THEN "dropout" ELSE "de_dropout"
                    /\ p = IF result.call = "forward"
                           THEN 2 * NumLayers + 1 ELSE NumLayers + 1
          /\ (pc \in { "dec", "fret", "bdec", "bret" }
                \/ result.status = "returned") => HiddenCount = 1
          /\ (pc # "idle" /\ trace # <<>> /\ IsHidden(trace[Len(trace)])) =>
                Running.shape = IF result.call = "forward" THEN enc.shape
                                ELSE EncShape(arg.shape, NumLayers)

C7_Witness ==
    /\ ForwardReturned /\ dropout_rate > 0 /\ NumLayers = 2
    /\ HiddenCount = 1 /\ result.ret.shape = <<1, 1, 3, 4>>

\* C8: forward returns a tensor of the shape of its input, with and without
\* dropout (the layers' deconvolve undoing the shape change of convolve).
C8_ForwardShape ==
    ForwardReturned => result.ret.shape = arg.shape

C8_Witness ==
    /\ ForwardReturned /\ NumLayers = 2 /\ dropout_rate > 0
    /\ arg.shape = <<2, 1, 4, 4>> /\ enc.shape = <<2, 1, 2, 2>>

\* C9 (as stated): a forward call that raises leaves the cache holding the
\* value it held before the call.
C9_AsStated ==
    ForwardRaised => Snap(feature_points_arr) = prevCache

\* C9 (amended): a forward call that raises in the encoder loop leaves the
\* cache holding the value it held before the call; one that raises in the
\* dropout step or in the decoder loop leaves it holding the encoding that
\* call produced.
C9_CacheAfterRaise ==
    ForwardRaised =>
        IF fault.phase = "enc"
        THEN ~encDone /\ Snap(feature_points_arr) = prevCache
        ELSE encDone /\ Snap(feature_points_arr) = enc

C9_Witness ==
    /\ ForwardRaised /\ fault.phase = "dec"
    /\ prevCache # NoVal /\ Snap(feature_points_arr) # prevCache

\* C10: in backward the debug entry of a failure in the reverse-order loop
\* carries n - i, the 1-based stack position of the failing layer, and the
\* entry of a failing bias-free convolve carries that layer's position too.
C10_BackwardLogIndex ==
    (result.call = "backward" /\ fault # NoFault /\ ~IsHidden(fault.ev)) =>
        /\ Len(log) = 1
        /\ log[1].num = fault.ev.layer
        /\ layerable_cnn_list[log[1].num].id = fault.ev.layer
        /\ fault.phase = "bdec" =>
              /\ log[1].num = NumLayers - fault.i
              /\ log[1].text =
                     "Delta computation raised an error in CNN layer "
        /\ fault.phase = "bconv" =>
              /\ log[1].num = fault.i + 1
              /\ log[1].text = "Backward raised error in Convolution layer "

C10_Witness ==
    /\ result.call = "backward" /\ fault.phase = "bdec" /\ NumLayers = 2
    /\ fault.ev.op = "forward" /\ fault.ev.layer = 2

====
